---------------------------- MODULE Spec2Model ----------------------------
(***************************************************************************)
(* Model of the yahoo-finance MCP server.                                  *)
(*                                                                         *)
(*   src/main.py      the tool-registration layer: one registered tool per *)
(*                    query type, the shared yahoo_client, the guard on an *)
(*                    uninitialised client and _handle_tool_error.         *)
(*   src/src/tool.py  the facade YahooFinance over the yfinance Ticker and *)
(*                    the serialiser _dataframe_to_json.                   *)
(*                                                                         *)
(* The upstream library (yfinance, pandas' reading of the network) is an   *)
(* opaque collaborator: every accessor read is a step whose outcome (a     *)
(* value of some Python type, or a raised exception) is chosen             *)
(* nondeterministically.                                                   *)
(*                                                                         *)
(* Python values are records tagged by their type in field t.  A Python    *)
(* str is either text, kept as the sequence of the pieces of the f-string  *)
(* that built it (literal pieces and interpolated values), or JSON text,   *)
(* kept as the document it encodes.  Prices and table cells are floats     *)
(* that are multiples of 1/32 (exactly representable), kept as their       *)
(* numerator.                                                              *)
(***************************************************************************)
EXTENDS Integers, Sequences, FiniteSets, TLC

VARIABLES
    phase,         \* position of the process: "import", "main", "serving", "finished"
    yahoo_client,  \* main.py's module global: Unbound, None or the YahooFinance instance
    stderr,        \* lines written to sys.stderr at start-up
    pc,            \* position of the invocation: "idle", "facade", "done"
    cmd,           \* name of the registered tool being invoked
    params,        \* the arguments the caller supplied, by parameter name
    fcall,         \* facade calls made by the invocation: <<[method, args]>>
    ups,           \* upstream accesses made by the invocation, each with its outcome
    fret,          \* how the facade call ended: returned a value, or raised
    response,      \* what the registered tool returned to the caller
    errlog,        \* lines the invocation in progress wrote to sys.stderr
    conc           \* the invocations the runtime runs concurrently, by slot

vars == <<phase, yahoo_client, stderr, pc, cmd, params, fcall, ups, fret, response, errlog,
          conc>>

---------------------------------------------------------------------------
(* Bounds of the model. *)

\* Largest number of rows of an upstream price-history table.
MaxRows == 2
\* Largest price, in 1/32 units, an upstream info field carries.
MaxPrice == 3
\* Largest number of rows of the upstream earnings_dates table.
MaxEarn == 2
\* Largest value of the limit argument of get_earning_dates.
MaxLimit == 2
\* Number of invocations the runtime runs concurrently.
NSlots == 2

Symbols == {"AAPL", "MSFT"}
Dates == {"2024-01-02", "2024-01-03"}
\* Date arguments a caller may pass: the dates and one string that is no date.
DateArgs == Dates \cup {"soon"}
Periods == {"1mo", "1y"}
Intervals == {"1d", "1wk"}
Freqs == {"yearly", "quarterly", "trailing"}
Limits == 0..MaxLimit
\* Messages of the exceptions the upstream library raises.
ExcMsgs == {"HTTP Error 404", "Read timed out"}

---------------------------------------------------------------------------
(* Python values. *)

None == [t |-> "NoneType"]
Unbound == [t |-> "unbound"]
NoValue == [t |-> "novalue"]
\* fret while the invocation has made no facade call, or its call has not ended.
NoCall == [k |-> "none"]

Range(s) == {s[i] : i \in 1..Len(s)}

\* A str built by an f-string: its pieces in order.
Text(parts) == [t |-> "str", enc |-> "text", parts |-> parts]
\* A str holding JSON text: the document it encodes.
JsonText(doc) == [t |-> "str", enc |-> "json", doc |-> doc]

\* A DataFrame: its column labels, its index labels, the key of each row (the
\* label its cells were stored under), and the leading columns that reset_index
\* made of the index (their cell is the row's key, a timestamp shown as leadfmt
\* says).  A Series is one named column.
DataFrame(columns, index) ==
    [t |-> "DataFrame", columns |-> columns, index |-> index, keys |-> index,
     lead |-> <<>>, leadfmt |-> "iso"]
Series(name, index) == [t |-> "Series", name |-> name, index |-> index]
Dict(n) == [t |-> "dict", size |-> n]
List(items) == [t |-> "list", items |-> items]
Tuple(items) == [t |-> "tuple", items |-> items]

\* type(v) as an f-string shows it.
TypeRepr(v) == "<class '" \o v.t \o "'>"

\* The message of the AttributeError raised by v.attr on a value without attr.
AttributeErrorMsg(v, attr) == "'" \o v.t \o "' object has no attribute '" \o attr \o "'"

IsFrame(v) == v.t \in {"DataFrame", "Series"}

\* pandas' .empty: some axis has length 0.
Empty(v) ==
    IF v.t = "DataFrame" THEN Len(v.index) = 0 \/ Len(v.columns) = 0
    ELSE Len(v.index) = 0

\* Python truthiness of the values the code tests with `not`.
Truthy(v) ==
    CASE v.t = "NoneType" -> FALSE
      [] v.t = "dict" -> v.size > 0
      [] v.t \in {"list", "tuple"} -> Len(v.items) > 0
      [] v.t = "FastInfo" -> v.size > 0
      [] OTHER -> TRUE

\* The float a table holds at row label r, column label c (in 1/32 units): the
\* tables of the model carry a different number in every column of a row.
LabelNo(l) ==
    CASE l = "Open" -> 1 [] l = "High" -> 2 [] l = "Low" -> 3 [] l = "Close" -> 4
      [] l = "Volume" -> 5 [] l = "Dividends" -> 6 [] l = "Stock Splits" -> 7
      [] l = "2024-01-03" -> 8
      [] OTHER -> 0
Cell(r, c) == LabelNo(r) + LabelNo(c)

---------------------------------------------------------------------------
(* Formatting. *)

\* d as a decimal numeral of at least w digits, zero-padded on the left.
RECURSIVE Pad(_, _)
Pad(s, w) == IF Len(s) >= w THEN s ELSE Pad("0" \o s, w)

\* f"{x:.4f}" of the float n/32, n >= 0.  n/32 = (3125 * n) / 100000 exactly, so
\* the fifth decimal is 0 or 5; a 5 is an exact tie, which the correctly rounded
\* conversion resolves to the even fourth decimal.
Fmt4(n) ==
    LET e5 == 3125 * n
        q == e5 \div 10
        r == e5 % 10
        e4 == IF r = 5 /\ q % 2 = 1 THEN q + 1 ELSE q
    IN  ToString(e4 \div 10000) \o "." \o Pad(ToString(e4 % 10000), 4)

\* pandas' date_format="iso" of a date label.
IsoDate(d) == IF d \in Dates THEN d \o "T00:00:00.000" ELSE d

\* A float n/32 as JSON text shows it.
JsonNum(n) == ToString(n) \o "/32"

\* tool.py _dataframe_to_json: a DataFrame or Series goes through
\* to_json(orient="split", date_format="iso"), a dict or list through
\* json.dumps(data, default=str), anything else through json.dumps(str(data)).
\* A "parsed" value is the result of json.loads: it dumps to the same document.
dataframe_to_json(data) ==
    CASE data.t = "DataFrame" ->
            JsonText([columns |-> data.lead \o data.columns,
                      index |-> [i \in 1..Len(data.index) |-> IsoDate(data.index[i])],
                      data |-> [i \in 1..Len(data.index) |->
                                  [j \in 1..Len(data.lead) |->
                                      IF data.leadfmt = "iso" THEN IsoDate(data.keys[i])
                                      ELSE data.keys[i]]
                                  \o [j \in 1..Len(data.columns) |->
                                      JsonNum(Cell(data.keys[i], data.columns[j]))]]])
      [] data.t = "Series" ->
            JsonText([name |-> data.name,
                      index |-> [i \in 1..Len(data.index) |-> IsoDate(data.index[i])],
                      data |-> [i \in 1..Len(data.index) |->
                                  JsonNum(Cell(data.index[i], data.name))]])
      [] data.t = "dict" -> JsonText([object |-> data])
      [] data.t = "list" -> JsonText([array |-> data.items])
      [] OTHER -> JsonText([string |-> data.t])

\* json.loads of JSON text.
json_loads(s) == s.doc


---------------------------------------------------------------------------
(* The upstream collaborator: what an accessor of yfinance's Ticker gives. *)

\* An outcome of an upstream access: a value, or a raised exception.
Value(v) == [k |-> "value", v |-> v]
Raised(msg) == [k |-> "raise", msg |-> msg]
Raises == {Raised(m) : m \in ExcMsgs}

NoArg == [none |-> TRUE]

\* Sequences over S of length at most n.
SeqsUpTo(S, n) == UNION {[1..m -> S] : m \in 0..n}

\* Column layouts of a price-history table: always Open, High, Low, Close and
\* Volume, in the order upstream happens to give, with or without the
\* Dividends and Stock Splits columns.
HistoryLayouts ==
    { <<"Open", "High", "Low", "Close", "Volume">>,
      <<"Open", "High", "Low", "Close", "Volume", "Dividends", "Stock Splits">>,
      <<"Close", "Open", "High", "Low", "Volume">>,
      <<"Dividends", "Volume", "Close", "Low", "High", "Open">> }
HistoryFrames ==
    {DataFrame(c, i) : c \in HistoryLayouts, i \in SeqsUpTo(Dates, MaxRows)}

\* A field of the info dict: absent, present with None, or present with a float.
Absent == [t |-> "absent"]
Float(n) == [t |-> "float", n |-> n]
InfoFields == {Absent, None} \cup {Float(n) : n \in 0..MaxPrice}
InfoDict(rmp, cp, pc_) ==
    [t |-> "dict",
     size |-> Cardinality({f \in {"r", "c", "p"} :
                 (f = "r" /\ rmp # Absent) \/ (f = "c" /\ cp # Absent)
                 \/ (f = "p" /\ pc_ # Absent)}),
     regularMarketPrice |-> rmp, currentPrice |-> cp, previousClose |-> pc_]
InfoDicts == {InfoDict(a, b, c) : a \in InfoFields, b \in InfoFields, c \in InfoFields}

\* Tables of the accessors whose cells no operation looks into.
EmptyFrame == DataFrame(<<"2023-12-31">>, <<>>)
SomeFrame == DataFrame(<<"2023-12-31">>, <<"Total Revenue">>)
EmptySeries(name) == Series(name, <<>>)
SomeSeries(name) == Series(name, <<"2024-01-02">>)

EarningsColumns == <<"EPS Estimate", "Reported EPS">>
EarningsFrames == {DataFrame(EarningsColumns, i) : i \in SeqsUpTo(Dates, MaxEarn)}
\* The calendar table: one row per item, one column per date of the item.
CalendarFrames ==
    {DataFrame([j \in 1..n |-> ToString(j - 1)], i) :
        n \in 1..MaxEarn, i \in {<<"Earnings Date", "Earnings Average">>, <<"Ex-Dividend Date">>}}

FastInfo(n) == [t |-> "FastInfo", size |-> n]
\* The expiration dates of a symbol: a tuple of date strings.
OptionTuples == {Tuple(s) : s \in {q \in SeqsUpTo(Dates, 2) : Len(q) = Cardinality(Range(q))}}
OptionChain == [t |-> "Options", calls |-> SomeFrame, puts |-> EmptyFrame]

\* The outcomes of reading accessor acc (a property or a method of the Ticker).
Outcomes(acc) ==
    Raises \cup
    {Value(v) : v \in
        CASE acc = "history" -> HistoryFrames \cup {None}
          [] acc = "info" -> InfoDicts \cup {None}
          [] acc = "fast_info" -> {FastInfo(0), FastInfo(1), None}
          [] acc \in {"dividends", "splits"} -> {EmptySeries(acc), SomeSeries(acc), None}
          [] acc = "earnings_dates" -> EarningsFrames \cup {None}
          [] acc = "calendar" -> CalendarFrames \cup {None, Dict(1)}
          [] acc = "news" -> {List(<<>>), List(<<"story">>), None}
          [] acc = "options" -> OptionTuples \cup {None}
          [] acc = "option_chain" -> {OptionChain}
          [] OTHER -> {EmptyFrame, SomeFrame, None, Dict(1)}}

---------------------------------------------------------------------------
(* The facade: src/src/tool.py, class YahooFinance.                        *)
(*                                                                         *)
(* A method is an operator of its arguments and of u, the upstream         *)
(* accesses the call has made so far (each with its outcome).  It gives    *)
(* the call's next step: Need, the accessor it reads next; Ret, the value  *)
(* it returns; Exc, an exception raised inside its try block (which Catch, *)
(* the except clause, turns into a returned string).                       *)

Need(acc, arg) == [k |-> "need", acc |-> acc, arg |-> arg]
Ret(v) == [k |-> "ret", v |-> v]
Exc(msg) == [k |-> "exc", msg |-> msg]
\* Mutant of Catch: the except clause lets the exception go on.
Catch_reraise(step, prefix) == step

\* `except Exception as e: return f"<prefix>{e}"`.
Catch(step, prefix) ==
    IF step.k = "exc" THEN Ret(Text(prefix \o <<step.msg>>)) ELSE step

\* Reading one accessor: the read if it has not been made, the exception if it
\* raised.  Otherwise the caller goes on with the value u[i].out.v.
Pending(u, i) == Len(u) < i \/ u[i].out.k = "raise"
\* Mutant of Access: an accessor that raised is read once more before the
\* exception is let go.
Access_retry(u, i, acc, arg) ==
    IF Len(u) < i \/ Len(u) = i THEN Need(acc, arg) ELSE Exc(u[i].out.msg)

Access(u, i, acc, arg) ==
    IF Len(u) < i THEN Need(acc, arg) ELSE Exc(u[i].out.msg)

\* dict.get(key) and dict.get(key, default) on the info dict.
DictGet(d, key) ==
    LET f == CASE key = "regularMarketPrice" -> d.regularMarketPrice
               [] key = "currentPrice" -> d.currentPrice
               [] key = "previousClose" -> d.previousClose
    IN  IF f = Absent THEN None ELSE f
DictGetDefault(d, key, default) ==
    LET f == CASE key = "regularMarketPrice" -> d.regularMarketPrice
               [] key = "currentPrice" -> d.currentPrice
               [] key = "previousClose" -> d.previousClose
    IN  IF f = Absent THEN default ELSE f
\* Mutant of current_price_of: the two fields are looked up in the other order.
current_price_of_swapped(stock) ==
    DictGetDefault(stock, "currentPrice", DictGet(stock, "regularMarketPrice"))

\* tool.py 33-35: stock.get("regularMarketPrice", stock.get("currentPrice")).
current_price_of(stock) ==
    DictGetDefault(stock, "regularMarketPrice", DictGet(stock, "currentPrice"))

YahooFinance_get_current_stock_price(symbol, u) ==
    Catch(
        IF Pending(u, 1) THEN Access(u, 1, "info", NoArg)
        ELSE LET stock == u[1].out.v IN
             IF stock.t # "dict" THEN Exc(AttributeErrorMsg(stock, "get"))
             ELSE LET current_price == current_price_of(stock) IN
                  IF current_price # None
                  THEN Ret(Text(<<Fmt4(current_price.n)>>))
                  ELSE LET prev_close == DictGet(stock, "previousClose") IN
                       IF prev_close # None
                       THEN Ret(Text(<<Fmt4(prev_close.n), " (Previous Close)">>))
                       ELSE Ret(Text(<<"Couldn't fetch current or previous price for ",
                                       symbol>>)),
        <<"Error fetching price for ", symbol, ": ">>)

\* pd.to_datetime(date) + pd.Timedelta(days=1), as the date string it stands for.
NextDay(date) ==
    CASE date = "2024-01-02" -> "2024-01-03"
      [] date = "2024-01-03" -> "2024-01-04"

\* `if X.empty` on the value of an accessor: an AttributeError unless X is a table.
NoEmptyAttr(v) == ~IsFrame(v)

YahooFinance_get_stock_price_by_date(symbol, date, u) ==
    Catch(
        \* the arguments of stock.history are evaluated before the call
        IF date \notin Dates
        THEN Exc("Unknown datetime string format, unable to parse: " \o date)
        ELSE IF Pending(u, 1)
        THEN Access(u, 1, "history", [start |-> date, end |-> NextDay(date)])
        ELSE LET price_data == u[1].out.v IN
             IF NoEmptyAttr(price_data) THEN Exc(AttributeErrorMsg(price_data, "empty"))
             ELSE IF ~Empty(price_data)
             THEN IF "Close" \notin Range(price_data.columns) THEN Exc("'Close'")
                  ELSE Ret(Text(<<Fmt4(Cell(price_data.keys[1], "Close"))>>))
             ELSE Ret(Text(<<"No price data found for ", symbol,
                             " on or immediately after ", date, ".">>)),
        <<"Error fetching price for ", symbol, " on ", date, ": ">>)
\* Mutant of date_range_no_data: the dates are compared, the table is not looked at.
date_range_no_data_by_dates(start_date, end_date, prices) == start_date = end_date

\* tool.py 79: the test that sends get_stock_price_date_range to its message.
date_range_no_data(start_date, end_date, prices) == Empty(prices)

YahooFinance_get_stock_price_date_range(symbol, start_date, end_date, u) ==
    Catch(
        IF Pending(u, 1)
        THEN Access(u, 1, "history", [start |-> start_date, end |-> end_date])
        ELSE LET prices == u[1].out.v IN
             IF NoEmptyAttr(prices) THEN Exc(AttributeErrorMsg(prices, "empty"))
             ELSE IF date_range_no_data(start_date, end_date, prices)
             THEN Ret(Text(<<"No price data found for ", symbol, " between ",
                             start_date, " and ", end_date, ".">>))
             ELSE IF "Close" \notin Range(prices.columns) THEN Exc("'Close'")
             ELSE Ret(dataframe_to_json(Series("Close", prices.index))),
        <<"Error fetching price range for ", symbol, ": ">>)
\* Mutant of SelectColumns: the table is passed on whole.
SelectColumns_all(df, labels) == df

\* df[[labels]]: the columns named, in the order named.
SelectColumns(df, labels) == [df EXCEPT !.columns = labels]
OHLCV == <<"Open", "High", "Low", "Close", "Volume">>

YahooFinance_get_historical_stock_prices(symbol, period, interval, u) ==
    Catch(
        IF Pending(u, 1)
        THEN Access(u, 1, "history", [period |-> period, interval |-> interval])
        ELSE LET prices == u[1].out.v IN
             IF NoEmptyAttr(prices) THEN Exc(AttributeErrorMsg(prices, "empty"))
             ELSE IF Empty(prices)
             THEN Ret(Text(<<"No historical data found for ", symbol, " with period=",
                             period, ", interval=", interval, ".">>))
             ELSE IF ~(Range(OHLCV) \subseteq Range(prices.columns))
             THEN Exc("columns not in index")
             ELSE Ret(dataframe_to_json(SelectColumns(prices, OHLCV))),
        <<"Error fetching historical prices for ", symbol, ": ">>)

\* get_dividends, get_splits: a Series accessor tested with .empty alone.
SeriesMethod(symbol, acc, what, errwhat, u) ==
    Catch(
        IF Pending(u, 1) THEN Access(u, 1, acc, NoArg)
        ELSE LET data == u[1].out.v IN
             IF NoEmptyAttr(data) THEN Exc(AttributeErrorMsg(data, "empty"))
             ELSE IF Empty(data) THEN Ret(Text(<<"No ", what, " data found for ", symbol, ".">>))
             ELSE Ret(dataframe_to_json(data)),
        <<"Error fetching ", errwhat, " for ", symbol, ": ">>)

YahooFinance_get_dividends(symbol, u) ==
    SeriesMethod(symbol, "dividends", "dividend", "dividends", u)

\* Mutant of YahooFinance_get_splits: an empty splits series makes the method
\* read the dividends accessor as well.
YahooFinance_get_splits_then_dividends(symbol, u) ==
    IF Len(u) >= 1 /\ u[1].out.k = "value" /\ ~NoEmptyAttr(u[1].out.v) /\ Empty(u[1].out.v)
    THEN SeriesMethod(symbol, "dividends", "stock split", "splits", Tail(u))
    ELSE SeriesMethod(symbol, "splits", "stock split", "splits", u)

YahooFinance_get_splits(symbol, u) ==
    SeriesMethod(symbol, "splits", "stock split", "splits", u)

\* get_income_statement, get_cashflow, get_balance_sheet: the quarterly accessor
\* for freq "quarterly", the yearly one for anything else.
StatementMethod(symbol, freq, yearly, quarterly, what, u) ==
    Catch(
        IF Pending(u, 1)
        THEN Access(u, 1, IF freq = "quarterly" THEN quarterly ELSE yearly, NoArg)
        ELSE LET data == u[1].out.v IN
             IF data.t = "DataFrame" /\ ~Empty(data) THEN Ret(dataframe_to_json(data))
             ELSE IF data.t = "DataFrame" /\ Empty(data)
             THEN Ret(Text(<<"No ", freq, " ", what, " data found for ", symbol, ".">>))
             ELSE Ret(Text(<<"Unexpected data type received for ", what, ": ",
                             TypeRepr(data)>>)),
        <<"Error fetching ", freq, " ", what, " for ", symbol, ": ">>)

YahooFinance_get_income_statement(symbol, freq, u) ==
    StatementMethod(symbol, freq, "income_stmt", "quarterly_income_stmt",
                    "income statement", u)

YahooFinance_get_cashflow(symbol, freq, u) ==
    StatementMethod(symbol, freq, "cashflow", "quarterly_cashflow", "cashflow", u)

YahooFinance_get_balance_sheet(symbol, freq, u) ==
    StatementMethod(symbol, freq, "balance_sheet", "quarterly_balance_sheet",
                    "balance sheet", u)

\* DataFrame.reset_index(): the index becomes the leading column "Earnings Date"
\* (the name upstream gives the index of earnings_dates), a RangeIndex replaces it.
reset_index(df) ==
    [df EXCEPT !.lead = <<"Earnings Date">>,
               !.index = [i \in 1..Len(df.index) |-> ToString(i - 1)]]
\* df[col] = df[col].dt.strftime('%Y-%m-%d').
strftime_ymd(df) == [df EXCEPT !.leadfmt = "ymd"]
\* DataFrame.head(n): the first n rows; all but the last -n for a negative n.
head(df, n) ==
    LET m == IF n >= 0 THEN (IF n < Len(df.index) THEN n ELSE Len(df.index))
             ELSE (IF Len(df.index) + n > 0 THEN Len(df.index) + n ELSE 0)
    IN  [df EXCEPT !.index = SubSeq(df.index, 1, m), !.keys = SubSeq(df.keys, 1, m)]

YahooFinance_get_earning_dates(symbol, limit, u) ==
    Catch(
        IF Pending(u, 1) THEN Access(u, 1, "earnings_dates", NoArg)
        ELSE LET earning_dates == u[1].out.v IN
             IF earning_dates.t = "DataFrame" /\ ~Empty(earning_dates)
             THEN Ret(dataframe_to_json(head(strftime_ymd(reset_index(earning_dates)), limit)))
             ELSE IF earning_dates.t = "DataFrame" /\ Empty(earning_dates)
             THEN \* Try calendar as fallback
                  IF Pending(u, 2) THEN Access(u, 2, "calendar", NoArg)
                  ELSE LET calendar_info == u[2].out.v IN
                       IF calendar_info = None
                       THEN Ret(Text(<<"No earnings dates found for ", symbol,
                                       " via earnings_dates or calendar.">>))
                       ELSE IF calendar_info.t # "DataFrame"
                       THEN Exc(AttributeErrorMsg(calendar_info, "index"))
                       ELSE IF "Earnings Date" \in Range(calendar_info.index)
                       THEN Ret(dataframe_to_json(calendar_info))
                       ELSE Ret(Text(<<"No earnings dates found for ", symbol,
                                       " via earnings_dates or calendar.">>))
             ELSE Ret(Text(<<"Unexpected data type received for earnings dates: ",
                             TypeRepr(earning_dates)>>)),
        <<"Error fetching earning dates for ", symbol, ": ">>)

YahooFinance_get_news(symbol, u) ==
    Catch(
        IF Pending(u, 1) THEN Access(u, 1, "news", NoArg)
        ELSE LET news == u[1].out.v IN
             IF ~Truthy(news) THEN Ret(Text(<<"No recent news found for ", symbol, ".">>))
             ELSE Ret(dataframe_to_json(news)),
        <<"Error fetching news for ", symbol, ": ">>)

YahooFinance_get_company_info(symbol, u) ==
    Catch(
        IF Pending(u, 1) THEN Access(u, 1, "info", NoArg)
        ELSE LET info_data == u[1].out.v IN
             IF ~Truthy(info_data)
             THEN \* Fallback to fast_info if info is empty
                  IF Pending(u, 2) THEN Access(u, 2, "fast_info", NoArg)
                  ELSE LET fast == u[2].out.v IN
                       IF ~Truthy(fast)
                       THEN Ret(Text(<<"Could not retrieve company info or fast_info for ",
                                       symbol, ".">>))
                       ELSE Ret(dataframe_to_json(fast))
             ELSE Ret(dataframe_to_json(info_data)),
        <<"Error fetching company info for ", symbol, ": ">>)

\* get_recommendations, get_analyst_price_targets: the message for None or an
\* empty DataFrame, the serialised value for anything else.
NoneOrEmptyFrameMethod(symbol, acc, what, errwhat, u) ==
    Catch(
        IF Pending(u, 1) THEN Access(u, 1, acc, NoArg)
        ELSE LET data == u[1].out.v IN
             IF data = None \/ (data.t = "DataFrame" /\ Empty(data))
             THEN Ret(Text(<<"No ", what, " data found for ", symbol, ".">>))
             ELSE Ret(dataframe_to_json(data)),
        <<"Error fetching ", errwhat, " for ", symbol, ": ">>)

YahooFinance_get_recommendations(symbol, u) ==
    NoneOrEmptyFrameMethod(symbol, "recommendations", "recommendation",
                           "recommendations", u)

YahooFinance_get_analyst_price_targets(symbol, u) ==
    NoneOrEmptyFrameMethod(symbol, "analyst_price_target", "analyst price target",
                           "analyst price targets", u)

\* The holders methods and get_sustainability: `X is None or X.empty`.
NoneOrEmptyMethod(symbol, acc, what, errwhat, u) ==
    Catch(
        IF Pending(u, 1) THEN Access(u, 1, acc, NoArg)
        ELSE LET data == u[1].out.v IN
             IF data = None THEN Ret(Text(<<"No ", what, " data found for ", symbol, ".">>))
             ELSE IF NoEmptyAttr(data) THEN Exc(AttributeErrorMsg(data, "empty"))
             ELSE IF Empty(data) THEN Ret(Text(<<"No ", what, " data found for ", symbol, ".">>))
             ELSE Ret(dataframe_to_json(data)),
        <<"Error fetching ", errwhat, " for ", symbol, ": ">>)

YahooFinance_get_major_holders(symbol, u) ==
    NoneOrEmptyMethod(symbol, "major_holders", "major holders", "major holders", u)

YahooFinance_get_institutional_holders(symbol, u) ==
    NoneOrEmptyMethod(symbol, "institutional_holders", "institutional holders",
                      "institutional holders", u)

YahooFinance_get_mutualfund_holders(symbol, u) ==
    NoneOrEmptyMethod(symbol, "mutualfund_holders", "mutual fund holders",
                      "mutual fund holders", u)

YahooFinance_get_sustainability(symbol, u) ==
    NoneOrEmptyMethod(symbol, "sustainability", "sustainability (ESG)",
                      "sustainability data", u)

YahooFinance_get_option_expiration_dates(symbol, u) ==
    Catch(
        IF Pending(u, 1) THEN Access(u, 1, "options", NoArg)
        ELSE LET expirations == u[1].out.v IN
             IF ~Truthy(expirations)
             THEN Ret(Text(<<"No option expiration dates found for ", symbol, ".">>))
             ELSE Ret(dataframe_to_json(List(expirations.items))),
        <<"Error fetching option expiration dates for ", symbol, ": ">>)
\* Mutant of date_unavailable: only the absence of any expiration is tested.
date_unavailable_if_none(date, options) == Len(options.items) = 0

\* tool.py 397: `date not in stock.options`, on a tuple of expiration dates.
date_unavailable(date, options) == date \notin Range(options.items)

YahooFinance_get_option_chain(symbol, date, u) ==
    Catch(
        IF Pending(u, 1) THEN Access(u, 1, "options", NoArg)
        ELSE LET options == u[1].out.v IN
             IF options.t # "tuple"
             THEN Exc("argument of type '" \o options.t \o "' is not iterable")
             ELSE IF date_unavailable(date, options)
             THEN Ret(Text(<<"Invalid or unavailable expiration date: ", date,
                             ". Use get_option_expiration_dates to see available dates.">>))
             ELSE IF Pending(u, 2) THEN Access(u, 2, "option_chain", [date |-> date])
             ELSE LET chain == u[2].out.v
                      result == [t |-> "dict", size |-> 2,
                                 calls |-> json_loads(dataframe_to_json(chain.calls)),
                                 puts |-> json_loads(dataframe_to_json(chain.puts))]
                  IN  Ret(dataframe_to_json(result)),
        <<"Error fetching option chain for ", symbol, " on ", date, ": ">>)

\* The facade method a call names, applied to the call's arguments.
FacadeStep(call, u) ==
    LET m == call.method
        a == call.args
    IN  CASE m = "get_current_stock_price" -> YahooFinance_get_current_stock_price(a.symbol, u)
          [] m = "get_stock_price_by_date" ->
                YahooFinance_get_stock_price_by_date(a.symbol, a.date, u)
          [] m = "get_stock_price_date_range" ->
                YahooFinance_get_stock_price_date_range(a.symbol, a.start_date, a.end_date, u)
          [] m = "get_historical_stock_prices" ->
                YahooFinance_get_historical_stock_prices(a.symbol, a.period, a.interval, u)
          [] m = "get_dividends" -> YahooFinance_get_dividends(a.symbol, u)
          [] m = "get_income_statement" -> YahooFinance_get_income_statement(a.symbol, a.freq, u)
          [] m = "get_cashflow" -> YahooFinance_get_cashflow(a.symbol, a.freq, u)
          [] m = "get_earning_dates" -> YahooFinance_get_earning_dates(a.symbol, a.limit, u)
          [] m = "get_news" -> YahooFinance_get_news(a.symbol, u)
          [] m = "get_balance_sheet" -> YahooFinance_get_balance_sheet(a.symbol, a.freq, u)
          [] m = "get_company_info" -> YahooFinance_get_company_info(a.symbol, u)
          [] m = "get_splits" -> YahooFinance_get_splits(a.symbol, u)
          [] m = "get_recommendations" -> YahooFinance_get_recommendations(a.symbol, u)
          [] m = "get_analyst_price_targets" ->
                YahooFinance_get_analyst_price_targets(a.symbol, u)
          [] m = "get_major_holders" -> YahooFinance_get_major_holders(a.symbol, u)
          [] m = "get_institutional_holders" ->
                YahooFinance_get_institutional_holders(a.symbol, u)
          [] m = "get_mutualfund_holders" -> YahooFinance_get_mutualfund_holders(a.symbol, u)
          [] m = "get_option_expiration_dates" ->
                YahooFinance_get_option_expiration_dates(a.symbol, u)
          [] m = "get_option_chain" -> YahooFinance_get_option_chain(a.symbol, a.date, u)
          [] m = "get_sustainability" -> YahooFinance_get_sustainability(a.symbol, u)

\* YahooFinance.__init__ with its defaults: a new Session, verify = True.
YahooFinance == [t |-> "YahooFinance", session |-> [t |-> "Session", verify |-> TRUE]]

---------------------------------------------------------------------------
(* The registration layer: src/main.py.                                    *)

SERVER_NAME == "yahoo_finance_engine"
\* Mutant of client_unavailable: the guard tests for the wrong sentinel.
client_unavailable_unbound(client) == client = Unbound

\* `if not yahoo_client`: the client is None (a YahooFinance instance is truthy).
client_unavailable(client) == ~Truthy(client)

NotInitialized ==
    [t |-> "dict", error |-> <<"YahooFinance client not initialized">>, code |-> -32001]
\* Mutant of handle_tool_error_return: the message is left out of the object.
handle_tool_error_return_no_e(command_name, ps, e) ==
    [t |-> "dict", error |-> <<"Server error during '", command_name, "'">>,
     code |-> -32000]

\* _handle_tool_error: the object it returns, and the line it prints to stderr
\* (error_msg followed by traceback.format_exc()).
handle_tool_error_return(command_name, ps, e) ==
    [t |-> "dict", error |-> <<"Server error during '", command_name, "': ", e>>,
     code |-> -32000]
handle_tool_error_print(command_name, ps, e) ==
    [server |-> SERVER_NAME,
     error_msg |-> [command |-> command_name, params |-> ps, e |-> e],
     error_trace |-> [traceback_of |-> e]]
\* Mutant of actual_freq: the fallback is the other frequency.
actual_freq_quarterly(freq) ==
    IF freq \in {"yearly", "quarterly"} THEN freq ELSE "quarterly"

\* `actual_freq = freq if freq in ["yearly", "quarterly"] else "yearly"`.
actual_freq(freq) == IF freq \in {"yearly", "quarterly"} THEN freq ELSE "yearly"
\* Mutant of tool_return: the tool re-encodes what the facade gave.
tool_return_reencoded(v) == JsonText([string |-> v.t])

\* `return yahoo_client.<method>(...)`: the registered tool returns what the call gave.
tool_return(v) == v

\* Mutant of RegisteredTools: the decorator of get_news is not commented out.
RegisteredTools_with_news ==
    {"get_current_stock_price", "get_stock_price_by_date", "get_stock_price_date_range",
     "get_historical_stock_prices", "get_dividends", "get_income_statement",
     "get_cashflow", "get_earning_dates", "get_news", "get_balance_sheet",
     "get_company_info", "get_splits", "get_recommendations", "get_analyst_price_targets",
     "get_major_holders", "get_institutional_holders", "get_mutualfund_holders",
     "get_option_expiration_dates", "get_option_chain", "get_sustainability"}

\* The names main.py registers with @mcp.tool() (get_news is defined but its
\* decorator is commented out).
RegisteredTools ==
    {"get_current_stock_price", "get_stock_price_by_date", "get_stock_price_date_range",
     "get_historical_stock_prices", "get_dividends", "get_income_statement",
     "get_cashflow", "get_earning_dates", "get_balance_sheet", "get_company_info",
     "get_splits", "get_recommendations", "get_analyst_price_targets",
     "get_major_holders", "get_institutional_holders", "get_mutualfund_holders",
     "get_option_expiration_dates", "get_option_chain", "get_sustainability"}

\* The body every registered tool shares: the guard on the client, then the call
\* of facade method `method` with arguments fargs inside try.  ps are the
\* arguments the caller supplied (also what the tool hands _handle_tool_error).
\* The server dispatches an invocation only to a function it has registered.
Tool(name, ps, method, fargs) ==
    /\ name \in RegisteredTools
    /\ phase = "serving"
    /\ pc = "idle"
    /\ cmd' = name
    /\ params' = ps
    /\ IF client_unavailable(yahoo_client)
       THEN /\ response' = NotInitialized
            /\ pc' = "done"
            /\ fcall' = <<>>
       ELSE /\ response' = NoValue
            /\ pc' = "facade"
            /\ fcall' = <<[method |-> method, args |-> fargs]>>
    /\ ups' = <<>>
    /\ fret' = NoCall
    /\ errlog' = <<>>
    /\ UNCHANGED <<conc, phase, yahoo_client, stderr>>

get_current_stock_price ==
    \E symbol \in Symbols :
        Tool("get_current_stock_price", [symbol |-> symbol],
             "get_current_stock_price", [symbol |-> symbol])

get_stock_price_by_date ==
    \E symbol \in Symbols, date \in DateArgs :
        Tool("get_stock_price_by_date", [symbol |-> symbol, date |-> date],
             "get_stock_price_by_date", [symbol |-> symbol, date |-> date])

get_stock_price_date_range ==
    \E symbol \in Symbols, start_date \in DateArgs, end_date \in DateArgs :
        Tool("get_stock_price_date_range",
             [symbol |-> symbol, start_date |-> start_date, end_date |-> end_date],
             "get_stock_price_date_range",
             [symbol |-> symbol, start_date |-> start_date, end_date |-> end_date])

get_historical_stock_prices ==
    \E symbol \in Symbols, period \in Periods, interval \in Intervals :
        Tool("get_historical_stock_prices",
             [symbol |-> symbol, period |-> period, interval |-> interval],
             "get_historical_stock_prices",
             [symbol |-> symbol, period |-> period, interval |-> interval])

get_dividends ==
    \E symbol \in Symbols :
        Tool("get_dividends", [symbol |-> symbol], "get_dividends", [symbol |-> symbol])

get_income_statement ==
    \E symbol \in Symbols, freq \in Freqs :
        Tool("get_income_statement", [symbol |-> symbol, freq |-> freq],
             "get_income_statement", [symbol |-> symbol, freq |-> actual_freq(freq)])

get_cashflow ==
    \E symbol \in Symbols, freq \in Freqs :
        Tool("get_cashflow", [symbol |-> symbol, freq |-> freq],
             "get_cashflow", [symbol |-> symbol, freq |-> actual_freq(freq)])

get_earning_dates ==
    \E symbol \in Symbols, limit \in Limits :
        Tool("get_earning_dates", [symbol |-> symbol, limit |-> limit],
             "get_earning_dates", [symbol |-> symbol, limit |-> limit])

\* main.py 156-167: the function is defined, its `@mcp.tool()` line is a comment.
get_news ==
    \E symbol \in Symbols :
        Tool("get_news", [symbol |-> symbol], "get_news", [symbol |-> symbol])

get_balance_sheet ==
    \E symbol \in Symbols, freq \in Freqs :
        Tool("get_balance_sheet", [symbol |-> symbol, freq |-> freq],
             "get_balance_sheet", [symbol |-> symbol, freq |-> freq])

get_company_info ==
    \E symbol \in Symbols :
        Tool("get_company_info", [symbol |-> symbol], "get_company_info", [symbol |-> symbol])

get_splits ==
    \E symbol \in Symbols :
        Tool("get_splits", [symbol |-> symbol], "get_splits", [symbol |-> symbol])

get_recommendations ==
    \E symbol \in Symbols :
        Tool("get_recommendations", [symbol |-> symbol],
             "get_recommendations", [symbol |-> symbol])

get_analyst_price_targets ==
    \E symbol \in Symbols :
        Tool("get_analyst_price_targets", [symbol |-> symbol],
             "get_analyst_price_targets", [symbol |-> symbol])

get_major_holders ==
    \E symbol \in Symbols :
        Tool("get_major_holders", [symbol |-> symbol], "get_major_holders", [symbol |-> symbol])

get_institutional_holders ==
    \E symbol \in Symbols :
        Tool("get_institutional_holders", [symbol |-> symbol],
             "get_institutional_holders", [symbol |-> symbol])

get_mutualfund_holders ==
    \E symbol \in Symbols :
        Tool("get_mutualfund_holders", [symbol |-> symbol],
             "get_mutualfund_holders", [symbol |-> symbol])

get_option_expiration_dates ==
    \E symbol \in Symbols :
        Tool("get_option_expiration_dates", [symbol |-> symbol],
             "get_option_expiration_dates", [symbol |-> symbol])

get_option_chain ==
    \E symbol \in Symbols, date \in DateArgs :
        Tool("get_option_chain", [symbol |-> symbol, date |-> date],
             "get_option_chain", [symbol |-> symbol, date |-> date])

get_sustainability ==
    \E symbol \in Symbols :
        Tool("get_sustainability", [symbol |-> symbol],
             "get_sustainability", [symbol |-> symbol])

\* Mutant of UpstreamAccess: the method switches certificate verification off on
\* the client's session before it reads the accessor.
UpstreamAccess_unverified ==
    /\ pc = "facade"
    /\ LET step == FacadeStep(fcall[1], ups) IN
       /\ step.k = "need"
       /\ \E out \in Outcomes(step.acc) :
             ups' = Append(ups, [acc |-> step.acc, arg |-> step.arg, out |-> out])
    /\ yahoo_client' = [yahoo_client EXCEPT !.session.verify = FALSE]
    /\ UNCHANGED <<conc, phase, stderr, pc, cmd, params, fcall, fret, response, errlog>>

\* The facade reads its next upstream accessor; upstream answers or raises.
UpstreamAccess ==
    /\ pc = "facade"
    /\ LET step == FacadeStep(fcall[1], ups) IN
       /\ step.k = "need"
       /\ \E out \in Outcomes(step.acc) :
             ups' = Append(ups, [acc |-> step.acc, arg |-> step.arg, out |-> out])
    /\ UNCHANGED <<conc, phase, yahoo_client, stderr, pc, cmd, params, fcall, fret, response, errlog>>

\* The facade call ends.  It returns a value, which the tool returns; or an
\* exception leaves it, which the tool's except clause hands _handle_tool_error.
FacadeReturn ==
    /\ pc = "facade"
    /\ LET step == FacadeStep(fcall[1], ups) IN
       /\ step.k \in {"ret", "exc"}
       /\ IF step.k = "ret"
          THEN /\ fret' = [k |-> "returned", v |-> step.v]
               /\ response' = tool_return(step.v)
               /\ errlog' = errlog
          ELSE /\ fret' = [k |-> "raised", msg |-> step.msg, by |-> "facade"]
               /\ response' = handle_tool_error_return(cmd, params, step.msg)
               /\ errlog' = Append(errlog, handle_tool_error_print(cmd, params, step.msg))
    /\ pc' = "done"
    /\ UNCHANGED <<conc, phase, yahoo_client, stderr, cmd, params, fcall, ups>>

\* Messages of the exceptions the Python runtime raises by itself.
RuntimeExcMsgs == {"maximum recursion depth exceeded", "out of memory"}

\* An exception leaves the call `yahoo_client.<method>(...)` that the facade's own
\* except clause does not turn into a string: one the runtime raises on entering
\* the method or while its handler builds the message (RecursionError,
\* MemoryError).  The tool's except clause hands it to _handle_tool_error.
FacadeCallRaises ==
    /\ pc = "facade"
    /\ \E e \in RuntimeExcMsgs :
          /\ fret' = [k |-> "raised", msg |-> e, by |-> "runtime"]
          /\ response' = handle_tool_error_return(cmd, params, e)
          /\ errlog' = Append(errlog, handle_tool_error_print(cmd, params, e))
    /\ pc' = "done"
    /\ UNCHANGED <<conc, phase, yahoo_client, stderr, cmd, params, fcall, ups>>

\* The response goes to the caller; the server waits for the next invocation.
Deliver ==
    /\ pc = "done"
    /\ pc' = "idle"
    /\ cmd' = ""
    /\ params' = NoArg
    /\ fcall' = <<>>
    /\ ups' = <<>>
    /\ fret' = NoCall
    /\ response' = NoValue
    /\ errlog' = <<>>
    /\ UNCHANGED <<conc, phase, yahoo_client, stderr>>

---------------------------------------------------------------------------
(* Concurrent invocations.  The runtime may run several registered tools   *)
(* at once (main.py 13, 323: FastMCP over streamable HTTP); each runs the  *)
(* same function bodies on the one yahoo_client, with its own locals.      *)

Slots == 1..NSlots
\* The locals of an invocation that has not started.
IdleInvocation ==
    [pc |-> "idle", cmd |-> "", params |-> NoArg, fcall |-> <<>>, ups |-> <<>>,
     fret |-> NoCall, response |-> NoValue, errlog |-> <<>>]

\* Mutant of Ticker: the client keeps one Ticker per symbol, which the calls in
\* progress on that symbol share.
Ticker_cached(c, s) ==
    LET same == {r \in Slots : /\ c[r].pc = "facade"
                               /\ c[r].fcall[1].args.symbol = c[s].fcall[1].args.symbol}
    IN  c[CHOOSE r \in same : \A q \in same : r <= q].ups

\* `stock = Ticker(ticker=symbol)`: every facade call builds its own Ticker, so
\* the accesses a call has made are those of its own object.
Ticker(c, s) == c[s].ups

\* The body of a registered tool, run in slot s.
ConcTool(s, name, ps, method, fargs) ==
    /\ name \in RegisteredTools
    /\ phase = "serving"
    /\ conc[s].pc = "idle"
    /\ conc' = [conc EXCEPT ![s] =
                  IF client_unavailable(yahoo_client)
                  THEN [IdleInvocation EXCEPT !.pc = "done", !.cmd = name, !.params = ps,
                                              !.response = NotInitialized]
                  ELSE [IdleInvocation EXCEPT !.pc = "facade", !.cmd = name, !.params = ps,
                                              !.fcall = <<[method |-> method,
                                                           args |-> fargs]>>]]
    /\ UNCHANGED <<phase, yahoo_client, stderr, pc, cmd, params, fcall, ups, fret, response,
                   errlog>>

\* The invocations run concurrently: a tool with one upstream access and one
\* with two, on the same symbol or on different ones.
ConcDates == {"2024-01-02"}
Conc_get_dividends(s) ==
    \E symbol \in Symbols :
        ConcTool(s, "get_dividends", [symbol |-> symbol], "get_dividends", [symbol |-> symbol])
Conc_get_option_chain(s) ==
    \E date \in ConcDates :
        ConcTool(s, "get_option_chain", [symbol |-> "AAPL", date |-> date],
                 "get_option_chain", [symbol |-> "AAPL", date |-> date])

\* The facade call of slot s reads its next upstream accessor.
ConcUpstreamAccess(s) ==
    /\ conc[s].pc = "facade"
    /\ LET step == FacadeStep(conc[s].fcall[1], Ticker(conc, s)) IN
       /\ step.k = "need"
       /\ \E out \in Outcomes(step.acc) :
             conc' = [conc EXCEPT ![s].ups =
                         Append(@, [acc |-> step.acc, arg |-> step.arg, out |-> out])]
    /\ UNCHANGED <<phase, yahoo_client, stderr, pc, cmd, params, fcall, ups, fret, response,
                   errlog>>

\* The facade call of slot s ends; the tool returns.
ConcFacadeReturn(s) ==
    /\ conc[s].pc = "facade"
    /\ LET step == FacadeStep(conc[s].fcall[1], Ticker(conc, s)) IN
       /\ step.k \in {"ret", "exc"}
       /\ conc' = [conc EXCEPT ![s] =
                     IF step.k = "ret"
                     THEN [@ EXCEPT !.pc = "done",
                                    !.fret = [k |-> "returned", v |-> step.v],
                                    !.response = tool_return(step.v)]
                     ELSE [@ EXCEPT !.pc = "done",
                                    !.fret = [k |-> "raised", msg |-> step.msg,
                                              by |-> "facade"],
                                    !.response =
                                        handle_tool_error_return(conc[s].cmd, conc[s].params, step.msg),
                                    !.errlog =
                                        Append(@, handle_tool_error_print(
                                                      conc[s].cmd, conc[s].params, step.msg))]]
    /\ UNCHANGED <<phase, yahoo_client, stderr, pc, cmd, params, fcall, ups, fret, response,
                   errlog>>

\* The response of slot s goes to its caller.
ConcDeliver(s) ==
    /\ conc[s].pc = "done"
    /\ conc' = [conc EXCEPT ![s] = IdleInvocation]
    /\ UNCHANGED <<phase, yahoo_client, stderr, pc, cmd, params, fcall, ups, fret, response,
                   errlog>>

---------------------------------------------------------------------------
(* Process start: main.py 16-23 and 316-328.                               *)

\* `yahoo_client = YahooFinance()` succeeds.
InitClientOk ==
    /\ phase = "import"
    /\ yahoo_client' = YahooFinance
    /\ stderr' = Append(stderr, <<"Info", "YahooFinance client initialized successfully.">>)
    /\ phase' = "main"
    /\ UNCHANGED <<conc, pc, cmd, params, fcall, ups, fret, response, errlog>>

\* The constructor raises: the failure is printed and yahoo_client is None.
InitClientFails ==
    /\ phase = "import"
    /\ \E init_e \in ExcMsgs :
          stderr' = Append(stderr, <<"Error", "Failed to initialize YahooFinance client: ",
                                     init_e>>)
    /\ yahoo_client' = None
    /\ phase' = "main"
    /\ UNCHANGED <<conc, pc, cmd, params, fcall, ups, fret, response, errlog>>

\* Mutant of MainRun: the `sys.exit(1)` after the warning is not commented out.
MainRun_exit_on_failure ==
    /\ phase = "main"
    /\ stderr' = IF yahoo_client = None
                 THEN stderr \o << <<"Starting">>,
                                   <<"Critical Error", "Yahoo client failed to initialize.">> >>
                 ELSE Append(stderr, <<"Starting">>)
    /\ phase' = IF yahoo_client = None THEN "finished" ELSE "serving"
    /\ UNCHANGED <<conc, yahoo_client, pc, cmd, params, fcall, ups, fret, response, errlog>>

\* The __main__ block up to mcp.run: the banner, and the warning on a None client.
MainRun ==
    /\ phase = "main"
    /\ stderr' = IF yahoo_client = None
                 THEN stderr \o << <<"Starting">>,
                                   <<"Critical Error", "Yahoo client failed to initialize.">> >>
                 ELSE Append(stderr, <<"Starting">>)
    /\ phase' = "serving"
    /\ UNCHANGED <<conc, yahoo_client, pc, cmd, params, fcall, ups, fret, response, errlog>>

\* mcp.run returns, or raises (which is printed); the process prints its last line.
MainFinish ==
    /\ phase = "serving"
    /\ pc = "idle"
    /\ \E raised \in BOOLEAN :
          stderr' = IF raised THEN stderr \o << <<"Error running MCP server">>, <<"finished">> >>
                    ELSE Append(stderr, <<"finished">>)
    /\ phase' = "finished"
    /\ UNCHANGED <<conc, yahoo_client, pc, cmd, params, fcall, ups, fret, response, errlog>>

Init ==
    /\ phase = "import"
    /\ yahoo_client = Unbound
    /\ stderr = <<>>
    /\ pc = "idle"
    /\ cmd = ""
    /\ params = NoArg
    /\ fcall = <<>>
    /\ ups = <<>>
    /\ fret = NoCall
    /\ response = NoValue
    /\ errlog = <<>>
    /\ conc = [s \in Slots |-> IdleInvocation]

Next ==
    \/ InitClientOk
    \/ InitClientFails
    \/ MainRun
    \/ MainFinish
    \/ get_current_stock_price
    \/ get_stock_price_by_date
    \/ get_stock_price_date_range
    \/ get_historical_stock_prices
    \/ get_dividends
    \/ get_income_statement
    \/ get_cashflow
    \/ get_earning_dates
    \/ get_balance_sheet
    \/ get_company_info
    \/ get_splits
    \/ get_recommendations
    \/ get_analyst_price_targets
    \/ get_major_holders
    \/ get_institutional_holders
    \/ get_mutualfund_holders
    \/ get_option_expiration_dates
    \/ get_option_chain
    \/ get_sustainability
    \/ UpstreamAccess
    \/ FacadeReturn
    \/ FacadeCallRaises
    \/ Deliver

Spec == Init /\ [][Next]_vars

\* The server while it runs invocations concurrently, up to NSlots at a time.
ConcNext ==
    \/ InitClientOk
    \/ InitClientFails
    \/ MainRun
    \/ \E s \in Slots : Conc_get_dividends(s)
    \/ \E s \in Slots : Conc_get_option_chain(s)
    \/ \E s \in Slots : ConcUpstreamAccess(s)
    \/ \E s \in Slots : ConcFacadeReturn(s)
    \/ \E s \in Slots : ConcDeliver(s)

ConcSpec == Init /\ [][ConcNext]_vars

\* The interpreter runs the module to its end: after the import-time statements
\* (the try/except around the constructor) it executes the __main__ block, which
\* has no blocking call before mcp.run.
FairSpec == Spec /\ WF_vars(InitClientOk \/ InitClientFails) /\ WF_vars(MainRun)

---------------------------------------------------------------------------
(* Properties.                                                             *)

Invoked == pc # "idle"
Called(method) == Invoked /\ fcall # <<>> /\ fcall[1].method = method
Returned == pc = "done" /\ fret.k = "returned"
Escaped == pc = "done" /\ fret.k = "raised"
\* The i-th upstream access of the invocation gave a value.
Gave(i) == Len(ups) >= i /\ ups[i].out.k = "value"

\* C1: with yahoo_client None, an invocation of any registered tool returns
\* exactly {error: "YahooFinance client not initialized", code: -32001} and makes
\* no facade call and no upstream access.
C1_UninitializedClient ==
    yahoo_client = None =>
        /\ pc \in {"idle", "done"}
        /\ fcall = <<>>
        /\ ups = <<>>
        /\ pc = "done" =>
              /\ cmd \in RegisteredTools
              /\ response = [t |-> "dict",
                             error |-> <<"YahooFinance client not initialized">>,
                             code |-> -32001]
C1_Witness ==
    yahoo_client = None /\ pc = "done" /\ cmd = "get_option_chain" /\ params.date = "soon"

\* C2: whatever the upstream accessors give (a table, an empty one, None, a value
\* of another type, a raised exception), no exception leaves the body of a facade
\* method and the method returns a str; when an upstream access raised, that str
\* is text holding the symbol asked for and the exception's message.  This holds
\* of the methods the registered tools call, on every path of an invocation, and
\* of get_news.
\* get_news, which no registered tool calls, applied to an outcome of its accessor.
NewsStep(symbol, out) ==
    YahooFinance_get_news(symbol, <<[acc |-> "news", arg |-> NoArg, out |-> out]>>)
C2_FacadeReturnsString ==
    /\ \A symbol \in Symbols, out \in Outcomes("news") :
          /\ NewsStep(symbol, out).k = "ret"
          /\ NewsStep(symbol, out).v.t = "str"
          /\ out.k = "raise" =>
                NewsStep(symbol, out).v =
                    Text(<<"Error fetching news for ", symbol, ": ", out.msg>>)
    /\ (pc = "facade" => FacadeStep(fcall[1], ups).k # "exc")
    /\ (pc = "done" /\ fcall # <<>>) =>
          IF fret.k = "raised" THEN fret.by = "runtime"
          ELSE /\ fret.v.t = "str"
               /\ \A i \in 1..Len(ups) :
                     ups[i].out.k = "raise" =>
                        /\ fret.v.enc = "text"
                        /\ fcall[1].args.symbol \in Range(fret.v.parts)
                        /\ ups[i].out.msg \in Range(fret.v.parts)
C2_Witness ==
    /\ Returned
    /\ cmd = "get_earning_dates"
    /\ Len(ups) = 2
    /\ ups[2].out.k = "raise"
    /\ fret.v = Text(<<"Error fetching earning dates for ", params.symbol, ": ",
                       ups[2].out.msg>>)

\* What a parameter's value looks like inside a message.
ParamText(ps, key) == IF key = "limit" THEN ToString(ps[key]) ELSE ps[key]

\* C3 as stated: when an exception leaves the facade call, the tool returns an
\* object with code -32000 that carries the command name, the parameters of the
\* call and the exception's message, and the failure is written to stderr with a
\* stack trace.
C3_ErrorObjectCarriesParams ==
    Escaped =>
        /\ response.t = "dict"
        /\ response.code = -32000
        /\ cmd \in Range(response.error)
        /\ fret.msg \in Range(response.error)
        /\ \A key \in DOMAIN params : ParamText(params, key) \in Range(response.error)
        /\ Len(errlog) = 1
        /\ errlog[1].error_trace = [traceback_of |-> fret.msg]

\* C3 as amended: when an exception leaves the facade call, the tool returns the
\* object {error: "Server error during '<command>': <message>", code: -32000},
\* which carries the command name and the message but not the parameters; the
\* parameters are in the one line written to stderr, with the command name, the
\* message and the stack trace.
C3_ErrorObject ==
    Escaped =>
        /\ response = [t |-> "dict",
                       error |-> <<"Server error during '", cmd, "': ", fret.msg>>,
                       code |-> -32000]
        /\ \A key \in DOMAIN params : ParamText(params, key) \notin Range(response.error)
        /\ errlog = << [server |-> "yahoo_finance_engine",
                        error_msg |-> [command |-> cmd, params |-> params, e |-> fret.msg],
                        error_trace |-> [traceback_of |-> fret.msg]] >>
C3_Witness ==
    /\ Escaped
    /\ cmd = "get_stock_price_date_range"
    /\ params.start_date # params.end_date
    /\ response.code = -32000
    /\ Len(errlog) = 1

\* C4: when the facade call returns a value, the registered tool returns exactly
\* that value: the one the facade method computes from what upstream gave.
C4_ResultUnchanged ==
    Returned =>
        /\ response = fret.v
        /\ response = FacadeStep(fcall[1], ups).v
        /\ errlog = <<>>
C4_Witness ==
    /\ Returned
    /\ cmd = "get_earning_dates"
    /\ response.enc = "json"
    /\ Len(response.doc.index) = 2

\* C5 as stated: the facade method of the tool's name is called with exactly the
\* argument values the caller supplied.
C5_ArgumentsVerbatim ==
    (Invoked /\ fcall # <<>>) =>
        /\ fcall[1].method = cmd
        /\ fcall[1].args = params

\* C5 as amended: with an initialised client the facade method of the tool's name
\* is called once, with exactly the argument values the caller supplied, except
\* that get_income_statement and get_cashflow pass "yearly" for a freq that is
\* neither "yearly" nor "quarterly".
C5_ArgumentsVerbatimButFreq ==
    (Invoked /\ yahoo_client # None) =>
        /\ Len(fcall) = 1
        /\ fcall[1].method = cmd
        /\ fcall[1].args =
              IF /\ cmd \in {"get_income_statement", "get_cashflow"}
                 /\ params.freq \notin {"yearly", "quarterly"}
              THEN [params EXCEPT !.freq = "yearly"]
              ELSE params
C5_Witness ==
    /\ Called("get_cashflow")
    /\ params.freq = "trailing"
    /\ fcall[1].args.freq = "yearly"
    /\ Len(ups) = 1

\* C6: for get_income_statement, get_cashflow and get_balance_sheet the facade is
\* only ever called with freq in {yearly, quarterly}: any other freq has been
\* replaced by "yearly" at the registration layer.
C6_FreqNormalized ==
    (Invoked /\ fcall # <<>>
        /\ cmd \in {"get_income_statement", "get_cashflow", "get_balance_sheet"}) =>
        /\ fcall[1].args.freq \in {"yearly", "quarterly"}
        /\ params.freq \notin {"yearly", "quarterly"} => fcall[1].args.freq = "yearly"

\* C7: in get_option_chain, option_chain is read only as the second access, after
\* options gave a tuple that holds the date; and when options gives a tuple that
\* does not hold the date, the method returns the "Invalid or unavailable
\* expiration date" message and option_chain is not read.
C7_ChainOnlyForAvailableDate ==
    Called("get_option_chain") =>
        /\ \A i \in 1..Len(ups) :
              ups[i].acc = "option_chain" =>
                 /\ i = 2
                 /\ ups[1].acc = "options"
                 /\ ups[1].out.k = "value"
                 /\ ups[1].out.v.t = "tuple"
                 /\ params.date \in Range(ups[1].out.v.items)
        /\ (Gave(1) /\ ups[1].out.v.t = "tuple"
                /\ params.date \notin Range(ups[1].out.v.items)) =>
              /\ Len(ups) = 1
              /\ FacadeStep(fcall[1], ups) =
                    Ret(Text(<<"Invalid or unavailable expiration date: ", params.date,
                               ". Use get_option_expiration_dates to see available dates.">>))
              /\ Returned => response = FacadeStep(fcall[1], ups).v
C7_Witness ==
    /\ Called("get_option_chain")
    /\ Returned
    /\ params.date = "2024-01-03"
    /\ Gave(1)
    /\ ups[1].out.v = Tuple(<<"2024-01-02">>)
    /\ response.parts[1] = "Invalid or unavailable expiration date: "

NoPriceData(symbol, start_date, end_date) ==
    Text(<<"No price data found for ", symbol, " between ", start_date, " and ",
           end_date, ".">>)

\* C8 as stated: get_stock_price_date_range returns the "No price data found"
\* message whenever start_date = end_date or the upstream history is empty.
C8_NoDataOnEqualDatesOrEmpty ==
    (Called("get_stock_price_date_range") /\ Returned) =>
        ((params.start_date = params.end_date
            \/ (Gave(1) /\ IsFrame(ups[1].out.v) /\ Empty(ups[1].out.v))) =>
         response = NoPriceData(params.symbol, params.start_date, params.end_date))

\* C8 as amended: get_stock_price_date_range returns the "No price data found"
\* message whenever the upstream history is an empty table, and serialises a
\* table only when it has rows; start_date = end_date is not looked at (the
\* response then depends on what upstream gives for that range, as for any other).
C8_NoDataOnEmpty ==
    (Called("get_stock_price_date_range") /\ Returned) =>
        /\ (Gave(1) /\ IsFrame(ups[1].out.v) /\ Empty(ups[1].out.v)) =>
              response = NoPriceData(params.symbol, params.start_date, params.end_date)
        /\ response.enc = "json" =>
              /\ Gave(1)
              /\ Len(ups[1].out.v.index) > 0
              /\ Len(response.doc.data) = Len(ups[1].out.v.index)
C8_Witness ==
    /\ Called("get_stock_price_date_range")
    /\ Returned
    /\ params.start_date = params.end_date
    /\ params.start_date \in Dates
    /\ Gave(1)
    /\ IsFrame(ups[1].out.v)
    /\ Empty(ups[1].out.v)
    /\ response = NoPriceData(params.symbol, params.start_date, params.end_date)

\* C9: for a non-empty upstream history table, get_historical_stock_prices returns
\* JSON text that decodes to a table with one row per upstream row, in the same
\* order, and the columns Open, High, Low, Close, Volume in that order, each cell
\* the upstream cell of that row and column, whatever other columns and whatever
\* column order the upstream table has.
C9_HistoryRoundTrip ==
    (Called("get_historical_stock_prices") /\ Returned /\ Gave(1)
        /\ IsFrame(ups[1].out.v) /\ ~Empty(ups[1].out.v)) =>
        LET up == ups[1].out.v IN
        /\ response.enc = "json"
        /\ LET doc == json_loads(response) IN
           /\ doc.columns = <<"Open", "High", "Low", "Close", "Volume">>
           /\ Len(doc.data) = Len(up.index)
           /\ Len(doc.index) = Len(up.index)
           /\ \A i \in 1..Len(up.index) :
                 /\ doc.index[i] = up.index[i] \o "T00:00:00.000"
                 /\ Len(doc.data[i]) = 5
                 /\ \A j \in 1..5 :
                       doc.data[i][j] = JsonNum(Cell(up.index[i], doc.columns[j]))
C9_Witness ==
    /\ Called("get_historical_stock_prices")
    /\ Returned
    /\ Gave(1)
    /\ ups[1].out.v = DataFrame(<<"Dividends", "Volume", "Close", "Low", "High", "Open">>,
                                <<"2024-01-03", "2024-01-02">>)
    /\ response.doc.data = << <<"9/32", "10/32", "11/32", "12/32", "13/32">>,
                              <<"1/32", "2/32", "3/32", "4/32", "5/32">> >>

\* f"{x:.4f}" of the prices of the model, written out.
FourDecimals(n) ==
    CASE n = 0 -> "0.0000"
      [] n = 1 -> "0.0312"
      [] n = 2 -> "0.0625"
      [] n = 3 -> "0.0938"
      [] n = 4 -> "0.1250"
      [] n = 5 -> "0.1562"

\* C10: get_current_stock_price returns regularMarketPrice to four decimals when
\* that field has a value, and currentPrice to four decimals when
\* regularMarketPrice is absent from the info and currentPrice has a value.
C10_PrimaryThenSecondary ==
    (Called("get_current_stock_price") /\ Returned /\ Gave(1) /\ ups[1].out.v.t = "dict") =>
        LET info == ups[1].out.v IN
        /\ info.regularMarketPrice.t = "float" =>
              response = Text(<<FourDecimals(info.regularMarketPrice.n)>>)
        /\ (info.regularMarketPrice = Absent /\ info.currentPrice.t = "float") =>
              response = Text(<<FourDecimals(info.currentPrice.n)>>)
C10_Witness ==
    /\ Called("get_current_stock_price")
    /\ Returned
    /\ Gave(1)
    /\ ups[1].out.v = InfoDict(Absent, Float(3), Float(1))
    /\ response = Text(<<"0.0938">>)

\* The upstream accesses the invocation has made.
UpstreamCalls == Len(ups)
\* The tools whose facade method reads a second accessor on some path.
TwoAccessTools == {"get_option_chain", "get_company_info", "get_earning_dates"}

\* C11 as stated: every invocation of a registered tool that the facade answers
\* has made exactly one upstream access, on every path.
C11_ExactlyOneUpstreamCall ==
    Returned => UpstreamCalls = 1

\* C11, amended: an invocation makes at most one upstream access, except that
\* get_option_chain reads option_chain after options gave a tuple holding the
\* date, get_company_info reads fast_info after info gave an empty value, and
\* get_earning_dates reads calendar after earnings_dates gave an empty table (two
\* accesses); a facade call that returned made at least one access, except
\* get_stock_price_by_date with a date that does not parse, which makes none.
C11_OneUpstreamCallButFallbacks ==
    Invoked =>
        /\ UpstreamCalls <= (IF cmd \in TwoAccessTools THEN 2 ELSE 1)
        /\ UpstreamCalls = 2 =>
              /\ Gave(1)
              /\ cmd = "get_option_chain" =>
                    /\ ups[1].acc = "options" /\ ups[2].acc = "option_chain"
                    /\ ups[1].out.v.t = "tuple"
                    /\ params.date \in Range(ups[1].out.v.items)
              /\ cmd = "get_company_info" =>
                    /\ ups[1].acc = "info" /\ ups[2].acc = "fast_info"
                    /\ ~Truthy(ups[1].out.v)
              /\ cmd = "get_earning_dates" =>
                    /\ ups[1].acc = "earnings_dates" /\ ups[2].acc = "calendar"
                    /\ ups[1].out.v.t = "DataFrame" /\ Empty(ups[1].out.v)
        /\ Returned =>
              (UpstreamCalls = 0 <=>
                  (cmd = "get_stock_price_by_date" /\ params.date \notin Dates))
C11_Witness ==
    /\ Returned
    /\ cmd = "get_company_info"
    /\ UpstreamCalls = 2
    /\ Gave(2)
    /\ response.t = "str"

\* The operations the specification lists, one per query type.
ListedTools ==
    {"get_current_stock_price", "get_stock_price_by_date", "get_stock_price_date_range",
     "get_historical_stock_prices", "get_dividends", "get_income_statement",
     "get_cashflow", "get_earning_dates", "get_company_info", "get_splits",
     "get_recommendations", "get_analyst_price_targets", "get_major_holders",
     "get_institutional_holders", "get_mutualfund_holders",
     "get_option_expiration_dates", "get_option_chain", "get_sustainability"}
\* Every listed operation can be invoked while the server waits.
ListedToolsEnabled ==
    /\ ENABLED get_current_stock_price
    /\ ENABLED get_stock_price_by_date
    /\ ENABLED get_stock_price_date_range
    /\ ENABLED get_historical_stock_prices
    /\ ENABLED get_dividends
    /\ ENABLED get_income_statement
    /\ ENABLED get_cashflow
    /\ ENABLED get_earning_dates
    /\ ENABLED get_company_info
    /\ ENABLED get_splits
    /\ ENABLED get_recommendations
    /\ ENABLED get_analyst_price_targets
    /\ ENABLED get_major_holders
    /\ ENABLED get_institutional_holders
    /\ ENABLED get_mutualfund_holders
    /\ ENABLED get_option_expiration_dates
    /\ ENABLED get_option_chain
    /\ ENABLED get_sustainability

\* C12 as stated: the operations a remote caller can invoke are exactly the
\* listed ones (price, history, dividends, income statement, cashflow, earnings
\* dates, company info, splits, recommendations, price targets, the three holder
\* tables, option dates, option chain, sustainability), and get_news is not
\* among them.
C12_SurfaceIsListedTools ==
    /\ Invoked => cmd \in ListedTools
    /\ ~ENABLED get_news

\* C12, amended: the operations a remote caller can invoke are the listed ones
\* and get_balance_sheet, each under its own name and calling the facade method
\* of that name; get_news cannot be invoked and no invocation calls the facade's
\* get_news.
C12_SurfaceWithBalanceSheet ==
    /\ Invoked => cmd \in ListedTools \cup {"get_balance_sheet"}
    /\ (phase = "serving" /\ pc = "idle") => (ListedToolsEnabled /\ ENABLED get_balance_sheet)
    /\ ~ENABLED get_news
    /\ fcall # <<>> => (fcall[1].method = cmd /\ fcall[1].method # "get_news")
C12_Witness ==
    /\ Returned
    /\ cmd = "get_balance_sheet"
    /\ fcall[1].method = "get_balance_sheet"
    /\ ~ENABLED get_news

\* The failure of the constructor is on the diagnostic stream.
InitFailureLogged ==
    \E i \in 1..Len(stderr) :
        /\ stderr[i][1] = "Error"
        /\ stderr[i][2] = "Failed to initialize YahooFinance client: "
        /\ stderr[i][3] \in ExcMsgs

\* C13: a failed construction of the client is logged and does not halt startup:
\* from the state after the failure the process reaches the state in which the
\* server runs, where every invocation is answered with the -32001 object; the
\* process ends only from the serving state (when mcp.run ends), never from the
\* failed initialization.
C13_InitFailureDoesNotHalt ==
    /\ [](yahoo_client = None => InitFailureLogged)
    /\ [][phase' = "finished" => phase = "serving"]_vars
    /\ (yahoo_client = None /\ phase = "main") ~> (yahoo_client = None /\ phase = "serving")
    /\ []((yahoo_client = None /\ phase = "serving" /\ pc = "idle") => ENABLED get_dividends)
    /\ []((yahoo_client = None /\ pc = "done") => response = NotInitialized)
C13_Witness ==
    /\ yahoo_client = None
    /\ InitFailureLogged
    /\ phase = "serving"
    /\ pc = "done"
    /\ response = NotInitialized

\* C14: no invocation changes process state.  Once the import-time statement has
\* bound yahoo_client, no step (an invocation that succeeds, returns an absence
\* message or fails, or the delivery of its response) changes the client, its
\* session or its verify flag: the client is the one the constructor built
\* (a session with verify = True) or None, and it is never bound again.
C14_ClientNeverChanges ==
    /\ [][yahoo_client # Unbound => yahoo_client' = yahoo_client]_vars
    /\ [][yahoo_client' # yahoo_client => (phase = "import" /\ pc = "idle")]_vars
    /\ [](yahoo_client \in {Unbound, None, YahooFinance})
    /\ []((yahoo_client \notin {Unbound, None}) =>
             (yahoo_client.session.t = "Session" /\ yahoo_client.session.verify = TRUE))
C14_Witness ==
    /\ Escaped
    /\ UpstreamCalls >= 1
    /\ yahoo_client = YahooFinance
    /\ yahoo_client.session.verify = TRUE

\* The earnings dates a serialized result of get_earning_dates holds: one per row
\* of the earnings_dates table, or the values of the calendar's "Earnings Date" row.
EarningsDateEntries ==
    IF UpstreamCalls = 1 THEN Len(response.doc.index) ELSE Len(response.doc.columns)

\* C15: a serialized result of get_earning_dates(symbol, limit) holds at most limit
\* earnings dates, on the earnings_dates path and on the calendar path alike.
\* The code violates this on the calendar path.
C15_AtMostLimitEntries ==
    (cmd = "get_earning_dates" /\ Returned /\ response.enc = "json") =>
        EarningsDateEntries <= params.limit
\* The part of C15 the code keeps: the rows of the earnings_dates table are cut to limit.
C15_PrimaryPathLimited ==
    (cmd = "get_earning_dates" /\ Returned /\ response.enc = "json" /\ UpstreamCalls = 1) =>
        EarningsDateEntries <= params.limit

\* C16: no retries.  Within one invocation, an upstream access that raised is the
\* last access of the invocation (the facade's next step is to return its error
\* string), and no accessor is read twice.
C16_NoRetries ==
    /\ \A i \in 1..Len(ups) : ups[i].out.k = "raise" => i = Len(ups)
    /\ \A i, j \in 1..Len(ups) : ups[i].acc = ups[j].acc => i = j
    /\ (pc = "facade" /\ Len(ups) >= 1 /\ ups[Len(ups)].out.k = "raise") =>
          (~ENABLED UpstreamAccess /\ FacadeStep(fcall[1], ups).k = "ret")
C16_Witness ==
    /\ Returned
    /\ cmd = "get_option_chain"
    /\ UpstreamCalls = 2
    /\ Gave(1)
    /\ ups[2].out.k = "raise"
    /\ response.enc = "text"

\* An info field holds a non-null value.
HasValue(f) == f.t = "float"

\* C18: get_current_stock_price marks its result "(Previous Close)" only when
\* neither regularMarketPrice nor currentPrice has a value; with regularMarketPrice
\* present as null and currentPrice valued the result is currentPrice; and the
\* "Couldn't fetch current or previous price" message is returned only when all
\* three fields lack a value.  The code violates this when regularMarketPrice is
\* present with a null value.
C18_PreviousCloseOnlyWithoutCurrent ==
    (Called("get_current_stock_price") /\ Returned /\ Gave(1) /\ ups[1].out.v.t = "dict") =>
        LET info == ups[1].out.v IN
        /\ " (Previous Close)" \in Range(response.parts) =>
              (~HasValue(info.regularMarketPrice) /\ ~HasValue(info.currentPrice))
        /\ (info.regularMarketPrice = None /\ HasValue(info.currentPrice)) =>
              response = Text(<<FourDecimals(info.currentPrice.n)>>)
        /\ "Couldn't fetch current or previous price for " \in Range(response.parts) =>
              /\ ~HasValue(info.regularMarketPrice)
              /\ ~HasValue(info.currentPrice)
              /\ ~HasValue(info.previousClose)
\* The part of C18 the code keeps: the same statement for upstream answers in
\* which regularMarketPrice is no null-valued key.
C18_HoldsUnlessNullMarketPrice ==
    (/\ Called("get_current_stock_price") /\ Returned /\ Gave(1)
     /\ ups[1].out.v.t = "dict"
     /\ ups[1].out.v.regularMarketPrice # None) =>
        LET info == ups[1].out.v IN
        /\ " (Previous Close)" \in Range(response.parts) =>
              (~HasValue(info.regularMarketPrice) /\ ~HasValue(info.currentPrice))
        /\ "Couldn't fetch current or previous price for " \in Range(response.parts) =>
              /\ ~HasValue(info.regularMarketPrice)
              /\ ~HasValue(info.currentPrice)
              /\ ~HasValue(info.previousClose)

\* The invocation inv, run alone with its arguments, makes exactly the upstream
\* accesses inv has made when upstream gives the answers inv was given.
AloneAccesses(inv) ==
    \A i \in 1..Len(inv.ups) :
        FacadeStep(inv.fcall[1], SubSeq(inv.ups, 1, i - 1)) = Need(inv.ups[i].acc, inv.ups[i].arg)
\* The response of inv run alone with the same arguments and upstream answers.
AloneResponse(inv) ==
    IF client_unavailable(yahoo_client) THEN NotInitialized
    ELSE LET step == FacadeStep([method |-> inv.cmd, args |-> inv.params], inv.ups) IN
         CASE step.k = "ret" -> tool_return(step.v)
           [] step.k = "exc" -> handle_tool_error_return(inv.cmd, inv.params, step.msg)
           [] OTHER -> NoValue

\* C17: under every interleaving of the steps of concurrent invocations on the
\* one client, the response of each invocation is the response the invocation
\* gives when it runs alone with the same arguments and the same upstream
\* answers, whatever the other invocations are, did or were answered.
C17_ResponseAsRunAlone ==
    \A s \in Slots :
        conc[s].pc = "done" =>
            /\ conc[s].response = AloneResponse(conc[s])
            /\ conc[s].fcall # <<>> => AloneAccesses(conc[s])
            /\ client_unavailable(yahoo_client) => conc[s].ups = <<>>
C17_Witness ==
    /\ conc[1].pc = "facade"
    /\ conc[2].pc = "done"
    /\ conc[1].cmd = "get_option_chain"
    /\ conc[2].cmd = "get_option_chain"
    /\ conc[1].params = conc[2].params
    /\ Len(conc[1].ups) = 1
    /\ Len(conc[2].ups) = 2
    /\ conc[1].ups[1].out # conc[2].ups[1].out
    /\ conc[2].response.enc = "json"

=============================================================================
